---------------------------- MODULE Spec2Model ----------------------------
(***************************************************************************)
(* A model of the RSVP utility functions (packages/core rsvp-utils):       *)
(* the ORP calculator, the per-word delay model, the remaining-time        *)
(* formatter and the word-frame extractor; and of the hand-over of opened  *)
(* files in the Electron main process (specification MainSpec).            *)
(*                                                                         *)
(* The functions are pure.  A behaviour of the model is one call: Init     *)
(* draws the function and its arguments, and the function's action         *)
(* evaluates it and stores the returned value.                             *)
(*                                                                         *)
(* Representation of JavaScript values:                                    *)
(*  - a string is a sequence of UTF-16 code units, each code unit named    *)
(*    by a TLA+ string ("a", ".", "U+D840", ...);                          *)
(*  - a value passed where a string is expected is a record [t, s], t the  *)
(*    typeof-like tag and s the code units when t = "string";              *)
(*  - a number is a record [k, n, d]: k = "fin" is the rational n/d in     *)
(*    lowest terms with d > 0, k = "inf" is +/-Infinity (sign n),          *)
(*    k = "nan" is NaN and k = "undefined" is a missing argument.          *)
(*    Arithmetic on these records is exact; formatTimeRemaining, where     *)
(*    Math.ceil turns a rounding error into a whole second, is computed in *)
(*    IEEE 754 doubles (see DoubleDivide).                                 *)
(***************************************************************************)
EXTENDS Integers, Sequences, FiniteSets

VARIABLES call, pc, ret

\* The Electron main process: the app's ready state, the module variables
\* mainWindow (0 is null, k > 0 the k-th BrowserWindow) and pendingFilePath,
\* the current window's webContents (page loaded; 'did-finish-load' listener
\* registered with once), the 'file-opened' messages sent so far, the paths
\* that open-file delivered while mainWindow was null, and the numbers of
\* open-file events and of windows created.
VARIABLES appReady, mainWindow, pendingFilePath, loaded, onDidFinishLoad, sent, receivedWhileNull, opened, created

mainVars == <<appReady, mainWindow, pendingFilePath, loaded, onDidFinishLoad, sent, receivedWhileNull, opened, created>>

vars == <<call, pc, ret, mainVars>>

---------------------------------------------------------------------------
(* Bounds of the model *)

\* longest word enumerated over the whole alphabet ShortChars
MaxShort == 3
\* longest run of letters in the patterned words
MaxLetters == 30
\* longest token sequence handed to extractWordFrame
MaxTokens == 5
\* largest frameSize handed to extractWordFrame
MaxFrame == 6
\* longest text handed to parseText
MaxText == 5
\* largest remainingWords handed to formatTimeRemaining
MaxRemaining == 160
\* largest wordIndex handed to shouldPauseAtWord
MaxIndex == 16
\* largest pauseAfterWords handed to shouldPauseAtWord
MaxPause == 6
\* open-file events in one run of the main process
MaxOpens == 3
\* windows created in one run of the main process
MaxWindows == 3

---------------------------------------------------------------------------
(* Strings *)

\* the two code units of U+20000, a CJK letter outside the BMP
HiSurrogate == "U+D840"
LoSurrogate == "U+DC00"

\* code units that are letters of the Basic Multilingual Plane
BMPLetters == {"a", "b", "d", "e", "n"}

\* code units the short words are enumerated over
ShortChars == {"a", "b", "-", ".", ",", HiSurrogate, LoSurrogate}

\* sentence and clause punctuation, and other non-letters
SentenceEnd == {".", "!", "?", ";", ":"}

Max(a, b) == IF a >= b THEN a ELSE b
Min(a, b) == IF a <= b THEN a ELSE b

SeqsUpTo(S, n) == UNION {[1..k -> S] : k \in 0..n}

\* a run of n letters, "abab..."
LetterRun(n) == [i \in 1..n |-> IF i % 2 = 1 THEN "a" ELSE "b"]

Str(s) == [t |-> "string", s |-> s]
JSNull == [t |-> "null", s |-> <<>>]
JSUndefinedWord == [t |-> "undefined", s |-> <<>>]
JSNumberWord == [t |-> "number", s |-> <<>>]

\* `!word || typeof word !== 'string'` is false
IsValidWord(word) == word.t = "string" /\ Len(word.s) > 0


\* Array.prototype.slice / String.prototype.slice on a sequence s, with the
\* 0-based relative bounds of JavaScript: a negative bound counts from the
\* end, both bounds are clamped to [0, length], and the result is empty when
\* the start is not below the end.
RelativeIndex(len, i) == IF i < 0 THEN Max(len + i, 0) ELSE Min(i, len)

JSSlice(s, start, end) ==
    LET k == RelativeIndex(Len(s), start)
        final == RelativeIndex(Len(s), end)
    IN  IF k < final THEN SubSeq(s, k + 1, final) ELSE <<>>

\* s[i] for a 0-based i: the element, or `none` (undefined) out of range
JSIndex(s, i, none) == IF i >= 0 /\ i < Len(s) THEN s[i + 1] ELSE none

---------------------------------------------------------------------------
(* Tokenizer *)

\* code units matched by \s and removed by trim(): space, newline and the
\* no-break space stand for the white space and line terminator characters
WhiteSpace == {" ", "\n", "U+00A0"}

\* text.trim()
RECURSIVE TrimStart(_)
TrimStart(s) ==
    IF s # <<>> /\ Head(s) \in WhiteSpace THEN TrimStart(Tail(s)) ELSE s

RECURSIVE TrimEnd(_)
TrimEnd(s) ==
    IF s # <<>> /\ s[Len(s)] \in WhiteSpace
    THEN TrimEnd(SubSeq(s, 1, Len(s) - 1)) ELSE s

Trim(s) == TrimEnd(TrimStart(s))

\* s.split(/\s+/): the pieces between the maximal runs of white space; a run
\* at the start or the end leaves an empty piece there, and the empty string
\* splits into one empty piece
RECURSIVE SplitOnWhiteSpace(_)
SplitOnWhiteSpace(s) ==
    IF \A i \in 1..Len(s) : s[i] \notin WhiteSpace THEN <<s>>
    ELSE LET first == CHOOSE i \in 1..Len(s) :
                        /\ s[i] \in WhiteSpace
                        /\ \A j \in 1..(i - 1) : s[j] \notin WhiteSpace
         IN  <<SubSeq(s, 1, first - 1)>>
               \o SplitOnWhiteSpace(TrimStart(SubSeq(s, first, Len(s))))

\* pieces.filter(w => w.length > 0)
RECURSIVE FilterNonEmpty(_)
FilterNonEmpty(pieces) ==
    IF pieces = <<>> THEN <<>>
    ELSE IF Len(Head(pieces)) > 0
         THEN <<Head(pieces)>> \o FilterNonEmpty(Tail(pieces))
    ELSE FilterNonEmpty(Tail(pieces))

\* parseText without the filter of empty pieces
parseTextUnfiltered(text) ==
    IF ~IsValidWord(text) THEN <<>>
    ELSE SplitOnWhiteSpace(Trim(text.s))

parseText(text) ==
    IF ~IsValidWord(text) THEN <<>>
    ELSE FilterNonEmpty(SplitOnWhiteSpace(Trim(text.s)))

---------------------------------------------------------------------------
(* ORP calculator *)

\* unicodeLetterRegex.test(c) for a single code unit c: a lone surrogate is
\* not a letter
IsLetterUnit(c) == c \in BMPLetters

\* word.replace(/[^\p{L}]/gu, ''): with the u flag the pattern walks code
\* points, so a surrogate pair is one letter and is kept as its two code
\* units, and every other non-letter (a lone surrogate too) is removed
RECURSIVE StripNonLetters(_)
StripNonLetters(s) ==
    IF s = <<>> THEN <<>>
    ELSE IF Head(s) \in BMPLetters THEN <<Head(s)>> \o StripNonLetters(Tail(s))
    ELSE IF Head(s) = HiSurrogate /\ Len(s) >= 2 /\ s[2] = LoSurrogate
         THEN <<s[1], s[2]>> \o StripNonLetters(Tail(Tail(s)))
    ELSE StripNonLetters(Tail(s))

\* Math.floor(Math.log2(n)) for n >= 1
RECURSIVE FloorLog2(_)
FloorLog2(n) == IF n < 2 THEN 0 ELSE 1 + FloorLog2(n \div 2)

getORPIndex(word) ==
    IF ~IsValidWord(word) THEN 0
    ELSE LET len == Len(StripNonLetters(word.s))
         IN  IF len <= 1 THEN 0
             ELSE IF len <= 3 THEN 0
             ELSE IF len <= 5 THEN 1
             ELSE IF len <= 9 THEN 2
             ELSE IF len <= 12 THEN 3
             ELSE FloorLog2(len - 1) + 1

\* the for loop of getActualORPIndex from index i (0-based) with letterCount
\* letters seen: the index returned from inside the loop, or -1 when the loop
\* runs to the end
RECURSIVE ORPScan(_, _, _, _)
ORPScan(s, i, letterCount, orpIndex) ==
    IF i >= Len(s) THEN -1
    ELSE IF IsLetterUnit(s[i + 1])
         THEN IF letterCount = orpIndex THEN i
              ELSE ORPScan(s, i + 1, letterCount + 1, orpIndex)
    ELSE ORPScan(s, i + 1, letterCount, orpIndex)

getActualORPIndex(word) ==
    IF ~IsValidWord(word) THEN 0
    ELSE LET orpIndex == getORPIndex(word)
             found == ORPScan(word.s, 0, 0, orpIndex)
         IN  IF found >= 0 THEN found
             ELSE Min(orpIndex, Len(word.s) - 1)

\* splitWordForDisplay with `after` sliced from orpIndex instead of
\* orpIndex + 1
splitWordForDisplayAfterFromOrp(word) ==
    IF ~IsValidWord(word) THEN [before |-> <<>>, orp |-> <<>>, after |-> <<>>]
    ELSE LET orpIndex == getActualORPIndex(word)
         IN  [before |-> JSSlice(word.s, 0, orpIndex),
              orp    |-> IF orpIndex >= 0 /\ orpIndex < Len(word.s)
                         THEN <<word.s[orpIndex + 1]>> ELSE <<>>,
              after  |-> JSSlice(word.s, orpIndex, Len(word.s))]

splitWordForDisplay(word) ==
    IF ~IsValidWord(word) THEN [before |-> <<>>, orp |-> <<>>, after |-> <<>>]
    ELSE LET orpIndex == getActualORPIndex(word)
         IN  [before |-> JSSlice(word.s, 0, orpIndex),
              orp    |-> IF orpIndex >= 0 /\ orpIndex < Len(word.s)
                         THEN <<word.s[orpIndex + 1]>> ELSE <<>>,
              after  |-> JSSlice(word.s, orpIndex + 1, Len(word.s))]

---------------------------------------------------------------------------
(* Numbers *)

Abs(x) == IF x < 0 THEN -x ELSE x

RECURSIVE GCD(_, _)
GCD(a, b) == IF b = 0 THEN a ELSE GCD(b, a % b)

\* the finite number n/d (d # 0), in lowest terms with a positive denominator
Fin(n, d) ==
    LET g == GCD(Abs(n), Abs(d))
        sg == IF d < 0 THEN -1 ELSE 1
    IN  [k |-> "fin", n |-> (sg * n) \div g, d |-> (sg * d) \div g]

Num(n) == [k |-> "fin", n |-> n, d |-> 1]
Infinity(sign) == [k |-> "inf", n |-> sign, d |-> 1]
NaN == [k |-> "nan", n |-> 0, d |-> 1]
JSUndefined == [k |-> "undefined", n |-> 0, d |-> 1]

IsZero(x) == x.k = "fin" /\ x.n = 0

\* `!x` for a number argument: undefined, NaN and 0 are falsy
Falsy(x) == x.k \in {"undefined", "nan"} \/ IsZero(x)

\* `x <= 0` and `x > 0`: every comparison with NaN (or undefined) is false
LeqZero(x) == x.k \in {"fin", "inf"} /\ x.n <= 0
GtZero(x) == x.k \in {"fin", "inf"} /\ x.n > 0

\* a / b for a finite a: undefined converts to NaN, a division by zero gives
\* NaN (0/0) or an infinity, a division by an infinity gives 0
Divide(a, b) ==
    IF b.k \in {"undefined", "nan"} THEN NaN
    ELSE IF b.k = "inf" THEN Num(0)
    ELSE IF b.n = 0 THEN (IF a.n = 0 THEN NaN
                          ELSE Infinity(IF a.n > 0 THEN 1 ELSE -1))
    ELSE Fin(a.n * b.d, a.d * b.n)

\* a * b, a + b for finite a and b
Times(a, b) == Fin(a.n * b.n, a.d * b.d)
Plus(a, b) == Fin(a.n * b.d + b.n * a.d, a.d * b.d)

\* Math.ceil and Math.floor of a finite number, as integers
Floor(x) == x.n \div x.d
Ceil(x) == -((-x.n) \div x.d)

---------------------------------------------------------------------------
(* IEEE 754 double arithmetic, where rounding decides a result *)

\* A positive double is a record [m, e]: the 53-bit significand is a leading
\* 1 followed by the 52 bits held in m as DigitCount digits of DigitBits
\* bits, most significant first, and e is the binary exponent of the leading
\* bit: the value is (1 + sum of m[i] / DigitBase^i) * 2^e.  The operations
\* below take integers small enough (below 2^17) for every intermediate
\* result to stay below 2^31, and never leave the normal range.
DigitBits == 13
DigitCount == 4
DigitBase == 8192

RECURSIVE Pow2(_)
Pow2(k) == IF k = 0 THEN 1 ELSE 2 * Pow2(k - 1)

\* the largest k >= 0 with b * 2^k <= a, for a >= b > 0
RECURSIVE ShiftBelow(_, _)
ShiftBelow(a, b) == IF 2 * b <= a THEN 1 + ShiftBelow(a, 2 * b) ELSE 0

\* the smallest k >= 0 with a * 2^k >= b, for a > 0
RECURSIVE ShiftAbove(_, _)
ShiftAbove(a, b) == IF a >= b THEN 0 ELSE 1 + ShiftAbove(2 * a, b)

\* n more quotient digits of rem / den (rem < den), and the remainder left
RECURSIVE LongDivision(_, _, _)
LongDivision(rem, den, n) ==
    IF n = 0 THEN [digits |-> <<>>, rem |-> rem]
    ELSE LET rest == LongDivision((rem * DigitBase) % den, den, n - 1)
         IN  [digits |-> <<(rem * DigitBase) \div den>> \o rest.digits,
              rem |-> rest.rem]

\* digits + 1; the result is one digit longer, starting with the carry
RECURSIVE Increment(_)
Increment(digits) ==
    IF digits = <<>> THEN <<1>>
    ELSE LET front == SubSeq(digits, 1, Len(digits) - 1)
             last == digits[Len(digits)]
         IN  IF last + 1 < DigitBase
             THEN <<0>> \o front \o <<last + 1>>
             ELSE LET sum == Increment(front)
                  IN  sum \o <<0>>

\* the double nearest to (1 + 0.digits) * 2^e plus a discarded rest below
\* its last bit: the rest is `half` a unit in the last place or more, and
\* `sticky` tells whether it differs from exactly half (round to nearest,
\* ties to even)
RoundToDouble(digits, e, half, sticky) ==
    LET odd == digits[Len(digits)] % 2 = 1
        sum == Increment(digits)
    IN  IF ~(half /\ (sticky \/ odd)) THEN [m |-> digits, e |-> e]
        ELSE IF sum[1] = 1 THEN [m |-> [i \in 1..DigitCount |-> 0], e |-> e + 1]
        ELSE [m |-> SubSeq(sum, 2, Len(sum)), e |-> e]

\* a / b for integers a > 0 and b > 0
DoubleDivide(a, b) ==
    LET up == ShiftAbove(a, b)
        down == IF a >= b THEN ShiftBelow(a, b) ELSE 0
        num == a * Pow2(up)
        den == b * Pow2(down)
        q == LongDivision(num - den, den, DigitCount)
    IN  RoundToDouble(q.digits, down - up, 2 * q.rem >= den, 2 * q.rem # den)

\* the digits of digits * k + carry, one digit longer: the first element is
\* the carry out of the most significant digit
RECURSIVE MultiplyDigits(_, _, _)
MultiplyDigits(digits, k, carry) ==
    IF digits = <<>> THEN <<carry>>
    ELSE LET v == digits[Len(digits)] * k + carry
         IN  MultiplyDigits(SubSeq(digits, 1, Len(digits) - 1), k, v \div DigitBase)
               \o <<v % DigitBase>>

\* the number of binary digits of n > 0
RECURSIVE BitLength(_)
BitLength(n) == IF n < 2 THEN 1 ELSE 1 + BitLength(n \div 2)

\* digits shifted right by s bits (s <= DigitBits), `incoming` entering at
\* the top
RECURSIVE ShiftRight(_, _, _)
ShiftRight(digits, incoming, s) ==
    IF digits = <<>> THEN <<>>
    ELSE <<incoming * Pow2(DigitBits - s) + Head(digits) \div Pow2(s)>>
           \o ShiftRight(Tail(digits), Head(digits) % Pow2(s), s)

\* x * k for a double x and an integer k in 1..DigitBase - 1 (itself a
\* double): the exact product, rounded once
DoubleTimes(x, k) ==
    LET product == MultiplyDigits(x.m, k, 0)
        top == k + product[1]
        low == SubSeq(product, 2, Len(product))
        s == BitLength(top) - 1
        dropped == low[Len(low)] % Pow2(s)
    IN  IF s = 0 THEN [m |-> low, e |-> x.e]
        ELSE RoundToDouble(ShiftRight(low, top % Pow2(s), s), x.e + s,
                           dropped >= Pow2(s - 1), dropped % Pow2(s - 1) # 0)

\* the part of digit i of a significand that lies above (or, for `below`,
\* strictly below) the binary point, when f of the 52 bits are fraction bits
DigitAbovePoint(d, i, f) ==
    LET weight == DigitBits * (DigitCount - i)
    IN  IF weight >= f THEN d * Pow2(weight - f)
        ELSE IF weight + DigitBits > f THEN d \div Pow2(f - weight)
        ELSE 0

DigitBelowPoint(d, i, f) ==
    LET weight == DigitBits * (DigitCount - i)
    IN  IF weight >= f THEN 0
        ELSE IF weight + DigitBits > f THEN d % Pow2(f - weight)
        ELSE d

RECURSIVE SumAbovePoint(_, _, _)
SumAbovePoint(m, i, f) ==
    IF i > Len(m) THEN 0
    ELSE DigitAbovePoint(m[i], i, f) + SumAbovePoint(m, i + 1, f)

\* Math.ceil(x) for a double x with 0 < x < 2^31, as an integer
DoubleCeil(x) ==
    LET f == DigitBits * DigitCount - x.e
    IN  IF x.e < 0 THEN 1
        ELSE Pow2(x.e) + SumAbovePoint(x.m, 1, f)
               + (IF \E i \in 1..Len(x.m) : DigitBelowPoint(x.m[i], i, f) # 0
                  THEN 1 ELSE 0)

---------------------------------------------------------------------------
(* Delay model *)

FallbackDelay == 200
MsPerMinute == 60000
LongWordLength == 12
CommaMultiplier == Fin(3, 2)

\* /[.!?;:]$/.test(word) and /[,]$/.test(word): without the m flag `$` matches
\* at the end of the input only
EndsWithSentencePunctuation(s) == Len(s) > 0 /\ s[Len(s)] \in SentenceEnd
EndsWithComma(s) == Len(s) > 0 /\ s[Len(s)] = ","

\* the long-word pause counting the excess length from 11 instead of 12
LengthModifiedDelayFromEleven(word, baseDelay, wordLengthWPMMultiplier) ==
    IF GtZero(wordLengthWPMMultiplier) /\ Len(word.s) >= LongWordLength
    THEN Times(baseDelay,
               Plus(Num(1),
                    Times(Divide(wordLengthWPMMultiplier, Num(100)),
                          Num(Len(word.s) - (LongWordLength - 1)))))
    ELSE baseDelay

\* lines 97-101 of getWordDelay: the longer pause for long words, applied to
\* the base delay
LengthModifiedDelay(word, baseDelay, wordLengthWPMMultiplier) ==
    IF GtZero(wordLengthWPMMultiplier) /\ Len(word.s) >= LongWordLength
    THEN Times(baseDelay,
               Plus(Num(1),
                    Times(Divide(wordLengthWPMMultiplier, Num(100)),
                          Num(Len(word.s) - LongWordLength))))
    ELSE baseDelay

\* the pause on punctuation applied whatever pauseOnPunctuation says
PunctuationModifiedDelayAlways(word, baseDelay, pauseOnPunctuation, punctuationMultiplier) ==
    IF EndsWithSentencePunctuation(word.s)
    THEN Times(baseDelay, punctuationMultiplier)
    ELSE IF EndsWithComma(word.s)
    THEN Times(baseDelay, CommaMultiplier)
    ELSE baseDelay

\* lines 103-114 of getWordDelay: the pause on punctuation, applied to the
\* length-modified delay
PunctuationModifiedDelay(word, baseDelay, pauseOnPunctuation, punctuationMultiplier) ==
    IF pauseOnPunctuation /\ EndsWithSentencePunctuation(word.s)
    THEN Times(baseDelay, punctuationMultiplier)
    ELSE IF pauseOnPunctuation /\ EndsWithComma(word.s)
    THEN Times(baseDelay, CommaMultiplier)
    ELSE baseDelay

\* getWordDelay with the guard on wordsPerMinute placed before the guard on
\* word
getWordDelayEvalRateGuardFirst(word, wordsPerMinute, pauseOnPunctuation, punctuationMultiplier, wordLengthWPMMultiplier) ==
    IF Falsy(wordsPerMinute) \/ LeqZero(wordsPerMinute)
    THEN [value |-> Num(FallbackDelay), divisors |-> <<>>]
    ELSE IF ~IsValidWord(word)
    THEN [value |-> Divide(Num(MsPerMinute), wordsPerMinute),
          divisors |-> <<wordsPerMinute>>]
    ELSE
      LET base == Divide(Num(MsPerMinute), wordsPerMinute)
          baseDelay == LengthModifiedDelay(word, base, wordLengthWPMMultiplier)
      IN  [value |-> PunctuationModifiedDelay(word, baseDelay,
                                              pauseOnPunctuation,
                                              punctuationMultiplier),
           divisors |-> IF GtZero(wordLengthWPMMultiplier)
                             /\ Len(word.s) >= LongWordLength
                        THEN <<wordsPerMinute, Num(100)>>
                        ELSE <<wordsPerMinute>>]

\* getWordDelay, returning the value together with the divisors of the
\* divisions evaluated on the path taken, in evaluation order
getWordDelayEval(word, wordsPerMinute, pauseOnPunctuation, punctuationMultiplier, wordLengthWPMMultiplier) ==
    IF ~IsValidWord(word)
    THEN [value |-> Divide(Num(MsPerMinute), wordsPerMinute),
          divisors |-> <<wordsPerMinute>>]
    ELSE IF Falsy(wordsPerMinute) \/ LeqZero(wordsPerMinute)
    THEN [value |-> Num(FallbackDelay), divisors |-> <<>>]
    ELSE
      LET base == Divide(Num(MsPerMinute), wordsPerMinute)
          baseDelay == LengthModifiedDelay(word, base, wordLengthWPMMultiplier)
      IN  [value |-> PunctuationModifiedDelay(word, baseDelay,
                                              pauseOnPunctuation,
                                              punctuationMultiplier),
           divisors |-> IF GtZero(wordLengthWPMMultiplier)
                             /\ Len(word.s) >= LongWordLength
                        THEN <<wordsPerMinute, Num(100)>>
                        ELSE <<wordsPerMinute>>]

getWordDelay(word, wordsPerMinute, pauseOnPunctuation, punctuationMultiplier, wordLengthWPMMultiplier) ==
    getWordDelayEval(word, wordsPerMinute, pauseOnPunctuation,
                     punctuationMultiplier, wordLengthWPMMultiplier).value

\* Number.prototype.toString for an integer n >= 0, as code units
Digit(d) == <<"0", "1", "2", "3", "4", "5", "6", "7", "8", "9">>[d + 1]

RECURSIVE ToString(_)
ToString(n) == IF n < 10 THEN <<Digit(n)>>
               ELSE ToString(n \div 10) \o <<Digit(n % 10)>>

\* s.padStart(2, '0')
PadStart2(s) == IF Len(s) >= 2 THEN s ELSE [i \in 1..(2 - Len(s)) |-> "0"] \o s

\* formatTimeRemaining for integer arguments, returning the string together
\* with the divisors of the divisions (and remainders) evaluated on the path
\* taken.  The quotient and the product on line 127 are rounded to doubles
\* before Math.ceil; seconds / 60 is at least 1/60 away from any integer it
\* does not equal, so its rounding cannot change Math.floor.
formatTimeRemainingEval(remainingWords, wordsPerMinute) ==
    IF LeqZero(remainingWords) \/ Falsy(wordsPerMinute) \/ LeqZero(wordsPerMinute)
    THEN [value |-> <<"0", ":", "0", "0">>, divisors |-> <<>>]
    ELSE LET seconds == DoubleCeil(DoubleTimes(DoubleDivide(remainingWords.n,
                                                            wordsPerMinute.n), 60))
             mins == Floor(Divide(Num(seconds), Num(60)))
             secs == seconds % 60
         IN  [value |-> ToString(mins) \o <<":">> \o PadStart2(ToString(secs)),
              divisors |-> <<wordsPerMinute, Num(60), Num(60)>>]

formatTimeRemaining(remainingWords, wordsPerMinute) ==
    formatTimeRemainingEval(remainingWords, wordsPerMinute).value

---------------------------------------------------------------------------
(* Frame extractor *)

\* allWords[centerIdx] || '' : undefined (out of range) and '' are falsy
TokenOrPlaceholder(allWords, centerIdx) == JSIndex(allWords, centerIdx, "")

\* extractWordFrame with the right bound one short (centerIdx + radius)
extractWordFrameRightBoundShort(allWords, centerIdx, frameSize) ==
    IF frameSize <= 1 \/ centerIdx >= Len(allWords)
    THEN [subset |-> <<TokenOrPlaceholder(allWords, centerIdx)>>,
          centerOffset |-> 0]
    ELSE LET radius == frameSize \div 2
             leftBound == Max(0, centerIdx - radius)
             rightBound == Min(Len(allWords), centerIdx + radius)
         IN  [subset |-> JSSlice(allWords, leftBound, rightBound),
              centerOffset |-> centerIdx - leftBound]

extractWordFrame(allWords, centerIdx, frameSize) ==
    IF frameSize <= 1 \/ centerIdx >= Len(allWords)
    THEN [subset |-> <<TokenOrPlaceholder(allWords, centerIdx)>>,
          centerOffset |-> 0]
    ELSE LET radius == frameSize \div 2
             leftBound == Max(0, centerIdx - radius)
             rightBound == Min(Len(allWords), centerIdx + radius + 1)
         IN  [subset |-> JSSlice(allWords, leftBound, rightBound),
              centerOffset |-> centerIdx - leftBound]

---------------------------------------------------------------------------
(* Arguments *)

ShortWords == SeqsUpTo(ShortChars, MaxShort)

\* what may stand before and after a run of letters
Prefixes == {<<>>, <<"-">>, <<"(", "-">>, <<HiSurrogate, LoSurrogate>>}
Suffixes == {<<>>, <<"-">>, <<",">>, <<HiSurrogate, LoSurrogate>>}
              \cup {<<c>> : c \in SentenceEnd}

\* a run of letters between a prefix and a suffix, or broken by a hyphen
PatternWords ==
    {p \o LetterRun(n) \o s : p \in Prefixes, s \in Suffixes, n \in 1..MaxLetters}
      \cup {LetterRun(k) \o <<"-">> \o LetterRun(n - k) :
              k \in 1..MaxLetters, n \in 1..MaxLetters}

ExampleWords == {<<"e", "n", "d", ".">>, <<"e", "n", "d", ",">>}

InvalidWords == {JSNull, JSUndefinedWord, JSNumberWord, Str(<<>>)}

Words == InvalidWords
           \cup {Str(s) : s \in ShortWords \cup PatternWords \cup ExampleWords}

DelayWords == InvalidWords
                \cup {Str(s) : s \in ExampleWords}
                \cup {Str(LetterRun(n) \o s) : n \in 0..MaxLetters, s \in Suffixes}

WpmValues == {JSUndefined, NaN, Num(0), Num(-300),
              Num(1), Num(7), Num(300), Num(600)}
PunctuationMultipliers == {Num(2), Num(3)}
WordLengthMultipliers == {Num(0), Num(5), Num(-5)}
RemainingWordsValues == {Num(n) : n \in (-2)..MaxRemaining}
FormatWpmValues == WpmValues \cup {Num(3), Num(150)}

\* the first n tokens of a document of distinct words
Document == <<"a", "b", "c", "d", "e", "f", "g", "h">>
TokenSeqs ==
    LET docs == {SubSeq(Document, 1, n) : n \in 0..MaxTokens}
    IN  docs \cup UNION {{[d EXCEPT ![i] = ""] : i \in 1..Len(d)} : d \in docs}
CenterIndexes == (-(MaxTokens + 2))..(MaxTokens + 2)
FrameSizes == (-1)..MaxFrame
WordIndexes == (-2)..MaxIndex
PauseAfterWordsValues == (-1)..MaxPause

\* code units the texts are enumerated over
TextChars == {"a", "b"} \cup WhiteSpace
Texts == InvalidWords \cup {Str(s) : s \in SeqsUpTo(TextChars, MaxText)}

Calls ==
    {[fn |-> f, word |-> w] :
        f \in {"getORPIndex", "getActualORPIndex", "splitWordForDisplay"},
        w \in Words}
    \cup
    [fn : {"getWordDelay"}, word : DelayWords, wordsPerMinute : WpmValues,
     pauseOnPunctuation : BOOLEAN,
     punctuationMultiplier : PunctuationMultipliers,
     wordLengthWPMMultiplier : WordLengthMultipliers]
    \cup
    [fn : {"formatTimeRemaining"}, remainingWords : RemainingWordsValues,
     wordsPerMinute : FormatWpmValues]
    \cup
    [fn : {"extractWordFrame"}, allWords : TokenSeqs,
     centerIdx : CenterIndexes, frameSize : FrameSizes]
    \cup
    [fn : {"parseText"}, text : Texts]
    \cup
    [fn : {"shouldPauseAtWord"}, wordIndex : WordIndexes,
     pauseAfterWords : PauseAfterWordsValues]

---------------------------------------------------------------------------
(* The pause-every-N-words test *)

shouldPauseAtWordFromZero(wordIndex, pauseAfterWords) ==
    IF pauseAfterWords <= 0 THEN FALSE
    ELSE wordIndex % pauseAfterWords = 0

shouldPauseAtWord(wordIndex, pauseAfterWords) ==
    IF pauseAfterWords <= 0 THEN FALSE
    ELSE IF wordIndex <= 0 THEN FALSE
    ELSE wordIndex % pauseAfterWords = 0

---------------------------------------------------------------------------
(* The Electron main process (macOS, where open-file is delivered and the  *)
(* app stays alive without a window)                                       *)

Paths == {"/a", "/b"}
NoPath == "null"

MainStart ==
    /\ appReady = FALSE
    /\ mainWindow = 0
    /\ pendingFilePath = NoPath
    /\ loaded = FALSE
    /\ onDidFinishLoad = FALSE
    /\ sent = <<>>
    /\ receivedWhileNull = {}
    /\ opened = 0
    /\ created = 0

\* createWindow(): a new window starts loading; the did-finish-load listener
\* is registered only when a path is pending
createWindow ==
    /\ created < MaxWindows
    /\ created' = created + 1
    /\ mainWindow' = created + 1
    /\ loaded' = FALSE
    /\ onDidFinishLoad' = (pendingFilePath # NoPath)
    /\ UNCHANGED <<pendingFilePath, sent, receivedWhileNull, opened>>

\* app.on('open-file')
OpenFile(filePath) ==
    /\ opened < MaxOpens
    /\ opened' = opened + 1
    /\ IF mainWindow # 0
       THEN /\ sent' = Append(sent, [to |-> mainWindow, path |-> filePath])
            /\ UNCHANGED <<pendingFilePath, receivedWhileNull>>
       ELSE /\ pendingFilePath' = filePath
            /\ receivedWhileNull' = receivedWhileNull \cup {filePath}
            /\ UNCHANGED sent
    /\ UNCHANGED <<appReady, mainWindow, loaded, onDidFinishLoad, created>>
    /\ UNCHANGED <<call, pc, ret>>

\* app.whenReady().then(...)
WhenReady ==
    /\ ~appReady
    /\ appReady' = TRUE
    /\ createWindow
    /\ UNCHANGED <<call, pc, ret>>

\* app.on('activate'); before the app is ready new BrowserWindow throws and
\* nothing is assigned
Activate ==
    /\ appReady
    /\ mainWindow = 0
    /\ createWindow
    /\ UNCHANGED <<appReady, call, pc, ret>>

\* the window's page finishes loading; the listener registered with once
\* runs and is removed
DidFinishLoad ==
    /\ mainWindow # 0
    /\ ~loaded
    /\ loaded' = TRUE
    /\ IF onDidFinishLoad
       THEN /\ sent' = Append(sent, [to |-> mainWindow, path |-> pendingFilePath])
            /\ pendingFilePath' = NoPath
       ELSE UNCHANGED <<sent, pendingFilePath>>
    /\ onDidFinishLoad' = FALSE
    /\ UNCHANGED <<appReady, mainWindow, receivedWhileNull, opened, created>>
    /\ UNCHANGED <<call, pc, ret>>

\* mainWindow.on('closed'); the window's webContents and its listeners are
\* gone with it
Closed ==
    /\ mainWindow # 0
    /\ mainWindow' = 0
    /\ loaded' = FALSE
    /\ onDidFinishLoad' = FALSE
    /\ UNCHANGED <<appReady, pendingFilePath, sent, receivedWhileNull, opened, created>>
    /\ UNCHANGED <<call, pc, ret>>

MainInit ==
    /\ MainStart
    /\ call = [fn |-> "none"]
    /\ pc = "none"
    /\ ret = <<>>

MainNext ==
    \/ \E filePath \in Paths : OpenFile(filePath)
    \/ WhenReady
    \/ Activate
    \/ DidFinishLoad
    \/ Closed

MainSpec == MainInit /\ [][MainNext]_vars

---------------------------------------------------------------------------
(* The calls *)

Init ==
    /\ call \in Calls
    /\ pc = "called"
    /\ ret = <<>>
    /\ MainStart

Return(fn, value) ==
    /\ pc = "called"
    /\ call.fn = fn
    /\ ret' = value
    /\ pc' = "returned"
    /\ UNCHANGED <<call, mainVars>>

CallGetORPIndex ==
    /\ call.fn = "getORPIndex"
    /\ Return("getORPIndex", getORPIndex(call.word))

CallGetActualORPIndex ==
    /\ call.fn = "getActualORPIndex"
    /\ Return("getActualORPIndex", getActualORPIndex(call.word))

CallSplitWordForDisplay ==
    /\ call.fn = "splitWordForDisplay"
    /\ Return("splitWordForDisplay", splitWordForDisplay(call.word))

CallGetWordDelay ==
    /\ call.fn = "getWordDelay"
    /\ Return("getWordDelay",
              getWordDelayEval(call.word, call.wordsPerMinute,
                               call.pauseOnPunctuation,
                               call.punctuationMultiplier,
                               call.wordLengthWPMMultiplier))

CallFormatTimeRemaining ==
    /\ call.fn = "formatTimeRemaining"
    /\ Return("formatTimeRemaining",
              formatTimeRemainingEval(call.remainingWords, call.wordsPerMinute))

CallExtractWordFrame ==
    /\ call.fn = "extractWordFrame"
    /\ Return("extractWordFrame",
              extractWordFrame(call.allWords, call.centerIdx, call.frameSize))

CallParseText ==
    /\ call.fn = "parseText"
    /\ Return("parseText", parseText(call.text))

CallShouldPauseAtWord ==
    /\ call.fn = "shouldPauseAtWord"
    /\ Return("shouldPauseAtWord",
              shouldPauseAtWord(call.wordIndex, call.pauseAfterWords))

Next ==
    \/ CallParseText
    \/ CallShouldPauseAtWord
    \/ CallGetORPIndex
    \/ CallGetActualORPIndex
    \/ CallSplitWordForDisplay
    \/ CallGetWordDelay
    \/ CallFormatTimeRemaining
    \/ CallExtractWordFrame

Spec == Init /\ [][Next]_vars

Returned(fn) == pc = "returned" /\ call.fn = fn

---------------------------------------------------------------------------
(* Properties of the ORP calculator *)

\* the number of Unicode letters (code points of category L) in s: a BMP
\* letter, or a surrogate pair encoding a letter, counts once
RECURSIVE UnicodeLetterCount(_)
UnicodeLetterCount(s) ==
    IF s = <<>> THEN 0
    ELSE IF Head(s) \in BMPLetters THEN 1 + UnicodeLetterCount(Tail(s))
    ELSE IF Head(s) = HiSurrogate /\ Len(s) >= 2 /\ s[2] = LoSurrogate
         THEN 1 + UnicodeLetterCount(Tail(Tail(s)))
    ELSE UnicodeLetterCount(Tail(s))

\* a Unicode letter starts at the 0-based position i of s
LetterStartsAt(s, i) ==
    /\ i >= 0 /\ i < Len(s)
    /\ \/ s[i + 1] \in BMPLetters
       \/ /\ s[i + 1] = HiSurrogate
          /\ i + 1 < Len(s)
          /\ s[i + 2] = LoSurrogate

\* C1: splitWordForDisplay(word) of a non-empty string gives parts whose
\* concatenation before + orp + after is the word, with orp one code unit
\* long; an empty, null, undefined or non-string argument gives three empty
\* parts.
C1_SplitConcatenates ==
    Returned("splitWordForDisplay") =>
        IF IsValidWord(call.word)
        THEN /\ ret.before \o ret.orp \o ret.after = call.word.s
             /\ Len(ret.orp) = 1
        ELSE ret = [before |-> <<>>, orp |-> <<>>, after |-> <<>>]

\* a word with leading punctuation split into three non-empty parts
C1_Witness ==
    /\ Returned("splitWordForDisplay")
    /\ IsValidWord(call.word)
    /\ ~IsLetterUnit(call.word.s[1])
    /\ Len(ret.before) > 1
    /\ Len(ret.orp) = 1
    /\ Len(ret.after) > 0

\* the table of section 4.2, by letter count
ORPTable(len) ==
    IF len <= 3 THEN 0
    ELSE IF len <= 5 THEN 1
    ELSE IF len <= 9 THEN 2
    ELSE IF len <= 12 THEN 3
    ELSE FloorLog2(len - 1) + 1

\* C2: getORPIndex(word) is the table's value for the number of Unicode
\* letters in the word (so it depends on that number only and is monotone in
\* it), and is 0 for an empty or non-string argument.
C2_ORPIndexIsTableOfLetterCount ==
    Returned("getORPIndex") =>
        IF IsValidWord(call.word)
        THEN ret = ORPTable(UnicodeLetterCount(call.word.s))
        ELSE ret = 0

\* C3: for a word with at least one letter, getActualORPIndex(word) is a
\* position at which a letter stands, and the number of letters before that
\* position is getORPIndex(word).
C3_ActualIndexIsOnTargetLetter ==
    (Returned("getActualORPIndex") /\ IsValidWord(call.word)
        /\ UnicodeLetterCount(call.word.s) >= 1) =>
        /\ LetterStartsAt(call.word.s, ret)
        /\ UnicodeLetterCount(SubSeq(call.word.s, 1, ret)) = getORPIndex(call.word)

---------------------------------------------------------------------------
(* Properties of the delay model *)

\* wordsPerMinute is missing (undefined, NaN) or not positive
InvalidRate(wordsPerMinute) == ~GtZero(wordsPerMinute)

C5_NoDivisionByZero ==
    (Returned("getWordDelay") \/ Returned("formatTimeRemaining")) =>
        \A i \in 1..Len(ret.divisors) : ~IsZero(ret.divisors[i])

\* the duration after the length modifier, as section 4.3 states it
ExpectedLengthFactor(word, wordLengthWPMMultiplier) ==
    IF GtZero(wordLengthWPMMultiplier) /\ Len(word.s) >= 12
    THEN Plus(Num(1), Times(Fin(wordLengthWPMMultiplier.n,
                                100 * wordLengthWPMMultiplier.d),
                            Num(Len(word.s) - 12)))
    ELSE Num(1)

ExpectedBase(wordsPerMinute) == Fin(60000 * wordsPerMinute.d, wordsPerMinute.n)

\* the punctuation modifier, as section 4.3 states it
ExpectedPunctuationFactor(word, pauseOnPunctuation, punctuationMultiplier) ==
    LET last == word.s[Len(word.s)]
    IN  IF ~pauseOnPunctuation THEN Num(1)
        ELSE IF last \in {".", "!", "?", ";", ":"} THEN punctuationMultiplier
        ELSE IF last = "," THEN Fin(3, 2)
        ELSE Num(1)

ValidDelayCall ==
    /\ Returned("getWordDelay")
    /\ IsValidWord(call.word)
    /\ GtZero(call.wordsPerMinute)

\* C6: for a valid word and a positive rate, the result is the
\* length-modified duration times punctuationMultiplier when
\* pauseOnPunctuation holds and the word ends in . ! ? ; or :, times 1.5 when
\* it holds and the word ends in a comma, and the length-modified duration
\* itself otherwise ("end." at 300 wpm and multiplier 2 gives 400, "end,"
\* gives 300).
C6_PunctuationModifier ==
    ValidDelayCall =>
        /\ ret.value =
             Times(Times(ExpectedBase(call.wordsPerMinute),
                         ExpectedLengthFactor(call.word,
                                              call.wordLengthWPMMultiplier)),
                   ExpectedPunctuationFactor(call.word, call.pauseOnPunctuation,
                                             call.punctuationMultiplier))
        /\ (/\ call.wordsPerMinute = Num(300)
            /\ call.pauseOnPunctuation
            /\ call.punctuationMultiplier = Num(2)
            /\ call.wordLengthWPMMultiplier = Num(0))
           => /\ call.word = Str(<<"e", "n", "d", ".">>) => ret.value = Num(400)
              /\ call.word = Str(<<"e", "n", "d", ",">>) => ret.value = Num(300)

\* "end." at 300 wpm with multiplier 2 has been given 400 ms
C6_Witness ==
    /\ ValidDelayCall
    /\ call.word = Str(<<"e", "n", "d", ".">>)
    /\ call.wordsPerMinute = Num(300)
    /\ call.pauseOnPunctuation
    /\ call.punctuationMultiplier = Num(2)
    /\ call.wordLengthWPMMultiplier = Num(0)
    /\ ret.value = Num(400)

\* C7: for a valid word and a positive rate, and the punctuation modifier
\* aside, the result is 60000 / wordsPerMinute scaled by
\* 1 + (wordLengthWPMMultiplier / 100) * (length - 12) exactly when
\* wordLengthWPMMultiplier > 0 and the raw length is at least 12, and
\* 60000 / wordsPerMinute otherwise; a word of exactly 12 code units gets no
\* extra time.
C7_LengthModifier ==
    (ValidDelayCall
        /\ ExpectedPunctuationFactor(call.word, call.pauseOnPunctuation,
                                     call.punctuationMultiplier) = Num(1)) =>
        LET base == ExpectedBase(call.wordsPerMinute)
            len == Len(call.word.s)
            m == call.wordLengthWPMMultiplier
        IN  /\ (m.n > 0 /\ len >= 12) =>
                 ret.value = Times(base, Fin(100 * m.d + m.n * (len - 12),
                                             100 * m.d))
            /\ ~(m.n > 0 /\ len >= 12) => ret.value = base
            /\ len <= 12 => ret.value = base
            /\ (m.n > 0 /\ len > 12) => ret.value.n * base.d > base.n * ret.value.d

\* a word of 14 code units at 300 wpm with 5 percent per extra character is
\* given 200 * 1.10 = 220 ms
C7_Witness ==
    /\ ValidDelayCall
    /\ Len(call.word.s) = 14
    /\ ~call.pauseOnPunctuation
    /\ call.wordsPerMinute = Num(300)
    /\ call.wordLengthWPMMultiplier = Num(5)
    /\ ret.value = Num(220)

---------------------------------------------------------------------------
(* Properties of the frame extractor *)

\* C8: every frame returned, for any tokens, any centerIdx (negative and
\* past-the-end included) and any frameSize, has
\* 0 <= centerOffset < subset.length when subset is not empty.
C8_CenterOffsetInSubset ==
    (Returned("extractWordFrame") /\ Len(ret.subset) > 0) =>
        /\ 0 <= ret.centerOffset
        /\ ret.centerOffset < Len(ret.subset)

\* C9: when frameSize <= 1 or centerIdx is out of range (below 0 or at least
\* tokens.length), the frame has exactly one element, the token at centerIdx
\* or the empty-string placeholder when there is none, and centerOffset 0.
C9_DegenerateFrameIsSingle ==
    (Returned("extractWordFrame")
        /\ \/ call.frameSize <= 1
           \/ call.centerIdx < 0
           \/ call.centerIdx >= Len(call.allWords)) =>
        /\ ret.subset =
             <<IF call.centerIdx >= 0 /\ call.centerIdx < Len(call.allWords)
               THEN call.allWords[call.centerIdx + 1] ELSE "">>
        /\ ret.centerOffset = 0

\* C10: for 0 <= centerIdx < tokens.length and frameSize > 1, subset is the
\* slice tokens[max(0, centerIdx - r) .. min(length, centerIdx + r + 1)) with
\* r = floor(frameSize / 2), centerOffset is centerIdx - max(0, centerIdx - r),
\* subset[centerOffset] is tokens[centerIdx], and the slice is truncated, not
\* padded, at the edges ([a,b,c,d,e], 0, 3 gives [a,b] and 0).
C10_FrameIsClampedSlice ==
    (Returned("extractWordFrame")
        /\ call.centerIdx >= 0
        /\ call.centerIdx < Len(call.allWords)
        /\ call.frameSize > 1) =>
        LET r == call.frameSize \div 2
            lo == IF call.centerIdx - r > 0 THEN call.centerIdx - r ELSE 0
            hi == IF call.centerIdx + r + 1 < Len(call.allWords)
                  THEN call.centerIdx + r + 1 ELSE Len(call.allWords)
        IN  /\ Len(ret.subset) = hi - lo
            /\ \A j \in 0..(hi - lo - 1) : ret.subset[j + 1] = call.allWords[lo + j + 1]
            /\ ret.centerOffset = call.centerIdx - lo
            /\ ret.subset[ret.centerOffset + 1] = call.allWords[call.centerIdx + 1]
            /\ (call.allWords = <<"a", "b", "c", "d", "e">>
                  /\ call.centerIdx = 0 /\ call.frameSize = 3)
               => ret = [subset |-> <<"a", "b">>, centerOffset |-> 0]

\* the frame of [a,b,c,d,e] at 0 with frameSize 3 is [a,b], truncated on the
\* left
C10_Witness ==
    /\ Returned("extractWordFrame")
    /\ call.allWords = <<"a", "b", "c", "d", "e">>
    /\ call.centerIdx = 0
    /\ call.frameSize = 3
    /\ ret = [subset |-> <<"a", "b">>, centerOffset |-> 0]

---------------------------------------------------------------------------
(* Properties of the tokenizer *)

\* the 1-based positions of s at which a maximal run of non-white-space
\* code units starts, and the position at which the run starting at i ends
RunStarts(s) ==
    {i \in 1..Len(s) : s[i] \notin WhiteSpace /\ (i = 1 \/ s[i - 1] \in WhiteSpace)}

RunEnd(s, i) ==
    CHOOSE j \in i..Len(s) :
        /\ \A k \in i..j : s[k] \notin WhiteSpace
        /\ j = Len(s) \/ s[j + 1] \in WhiteSpace

\* C11: parseText returns the empty sequence for a null, undefined, empty or
\* non-string argument; for any other text it returns, in reading order,
\* exactly the maximal runs of non-white-space code units, so no token is
\* empty or holds white space, and leading or trailing white space gives no
\* token.
C11_TokensAreMaximalRuns ==
    Returned("parseText") =>
        IF ~IsValidWord(call.text) THEN ret = <<>>
        ELSE LET s == call.text.s
                 starts == RunStarts(s)
             IN  /\ Len(ret) = Cardinality(starts)
                 /\ \A i \in starts :
                      ret[1 + Cardinality({j \in starts : j < i})]
                        = SubSeq(s, i, RunEnd(s, i))
                 /\ \A k \in 1..Len(ret) :
                      /\ Len(ret[k]) > 0
                      /\ \A c \in 1..Len(ret[k]) : ret[k][c] \notin WhiteSpace

\* a text with leading, inner and trailing white space has given
\* its two words
C11_Witness ==
    /\ Returned("parseText")
    /\ call.text = Str(<<" ", "a", "\n", "b", "U+00A0">>)
    /\ ret = << <<"a">>, <<"b">> >>

---------------------------------------------------------------------------
(* Properties of the remaining-time formatter *)

\* C12: formatTimeRemaining returns "0:00" when remainingWords <= 0 or
\* wordsPerMinute is missing or not positive; otherwise, with
\* s = ceil(remainingWords / wordsPerMinute * 60), it returns the minutes
\* floor(s / 60) unpadded, a colon, and the seconds s mod 60 as two digits
\* (150 words at 300 wpm give "0:30").
C12_FormatsCeilOfSeconds ==
    Returned("formatTimeRemaining") =>
        IF call.remainingWords.n <= 0 \/ ~GtZero(call.wordsPerMinute)
        THEN ret.value = <<"0", ":", "0", "0">>
        ELSE LET s == Ceil(Fin(call.remainingWords.n * 60, call.wordsPerMinute.n))
             IN  /\ ret.value = ToString(s \div 60)
                                  \o <<":", Digit((s % 60) \div 10), Digit((s % 60) % 10)>>
                 /\ (call.remainingWords = Num(150) /\ call.wordsPerMinute = Num(300))
                      => ret.value = <<"0", ":", "3", "0">>

---------------------------------------------------------------------------
(* Properties of the pause test *)

\* C13: shouldPauseAtWord is false whenever pauseAfterWords <= 0 or
\* wordIndex <= 0, and otherwise true exactly when wordIndex is a multiple of
\* pauseAfterWords; with pauseAfterWords = 5 it is true at 5, 10, 15 and false
\* at 0, 1, 4, 6.
C13_PauseAtEveryNthWord ==
    Returned("shouldPauseAtWord") =>
        LET i == call.wordIndex
            N == call.pauseAfterWords
        IN  /\ (N <= 0 \/ i <= 0) => ret = FALSE
            /\ (N > 0 /\ i > 0) => (ret = (\E k \in 1..i : i = k * N))
            /\ (N = 5 /\ i \in {5, 10, 15}) => ret = TRUE
            /\ (N = 5 /\ i \in {0, 1, 4, 6}) => ret = FALSE

C13_Witness ==
    /\ Returned("shouldPauseAtWord")
    /\ call.wordIndex = 10
    /\ call.pauseAfterWords = 5
    /\ ret = TRUE

---------------------------------------------------------------------------
(* Size of the word frame *)

\* C15: for every token sequence, every centerIdx and every frameSize >= 1
\* the subset returned by extractWordFrame holds at most frameSize tokens, and
\* fewer than frameSize only when the window around centerIdx reaches past an
\* end of the document.
C15_SubsetAtMostFrameSize ==
    (Returned("extractWordFrame") /\ call.frameSize >= 1) =>
        LET n == Len(ret.subset)
            radius == call.frameSize \div 2
        IN  /\ n <= call.frameSize
            /\ n < call.frameSize =>
                 \/ call.centerIdx - radius < 0
                 \/ call.centerIdx + radius + 1 > Len(call.allWords)

---------------------------------------------------------------------------
(* Hand-over of opened files in the main process *)

SentPaths == {sent[i].path : i \in 1..Len(sent)}

\* C14: every path that open-file delivered while mainWindow was null has
\* been sent in a file-opened message once a window exists and has finished
\* loading, and pendingFilePath is null from then on; no such path is lost
\* under any interleaving of open-file, ready, activate, did-finish-load and
\* closed.
C14_PendingPathsAreSent ==
    (mainWindow # 0 /\ loaded) =>
        /\ receivedWhileNull \subseteq SentPaths
        /\ pendingFilePath = NoPath

=============================================================================
